---- MODULE Spec2Model ----
(***************************************************************************)
(* A model of contrib/pg_surgery (heap_surgery.c): heap_force_kill and     *)
(* heap_force_freeze, both implemented by heap_force_common.               *)
(*                                                                         *)
(* The relation is a sequence of heap pages (block b is heap[b + 1]); a    *)
(* page is its PD_ALL_VISIBLE flag, its line pointer array and the tuples  *)
(* stored on it.  One backend runs heap_force_common, one statement of the *)
(* function per step where another process (a crash, a checkpoint, a       *)
(* session extending the relation) can come in between.                    *)
(***************************************************************************)
EXTENDS Integers, Sequences, FiniteSets, TLC

\* ------------------------------------------------------------------ bounds
\* Longest tid array a call is given.
MaxTids == 2
\* Blocks other sessions may add to the relation while the model runs.
MaxExtend == 1
\* The turns of the loop over redirections that are counted for one offset.
MaxHops == 5
MaxBatch == 3
MaxPasses == 4

\* ------------------------------------------------- constants of the source
HEAP_FORCE_KILL == 0
HEAP_FORCE_FREEZE == 1

\* ItemIdData.lp_flags
LP_UNUSED == 0
LP_NORMAL == 1
LP_REDIRECT == 2
LP_DEAD == 3

InvalidTransactionId == 0
FrozenTransactionId == 2

\* t_infomask
HEAP_HASNULL == 1
HEAP_XMIN_COMMITTED == 256
HEAP_XMIN_INVALID == 512
HEAP_XMIN_FROZEN == HEAP_XMIN_COMMITTED + HEAP_XMIN_INVALID
HEAP_XMAX_COMMITTED == 1024
HEAP_XMAX_INVALID == 2048
HEAP_XMAX_IS_MULTI == 4096
HEAP_UPDATED == 8192
HEAP_MOVED_OFF == 16384
HEAP_MOVED_IN == 32768
HEAP_MOVED == HEAP_MOVED_OFF + HEAP_MOVED_IN
HEAP_XACT_MASK == 65520
\* t_infomask2
HEAP_KEYS_UPDATED == 8192
HEAP_HOT_UPDATED == 16384
HEAP_ONLY_TUPLE == 32768

\* visibility map bits
VISIBILITYMAP_ALL_VISIBLE == 1
VISIBILITYMAP_ALL_FROZEN == 2

\* 0xFFFFFFFF in the source; TLC's integers end at 2^31 - 1, and all the code
\* asks of the value is that it is the number of no block.
InvalidBlockNumber == 2147483647

\* pg_class.relkind values
RELKIND_RELATION == "r"
RELKIND_MATVIEW == "m"
RELKIND_TOASTVALUE == "t"
RELKIND_PARTITIONED_TABLE == "p"
RELKIND_INDEX == "i"
RELKIND_VIEW == "v"
RELKIND_SEQUENCE == "S"

\* ------------------------------------------------------------ bit algebra
\* uint16 operands, bit by bit.
RECURSIVE BitAndN(_, _, _)
BitAndN(a, b, n) ==
    IF n = 0 THEN 0
    ELSE (IF a % 2 = 1 /\ b % 2 = 1 THEN 1 ELSE 0)
         + 2 * BitAndN(a \div 2, b \div 2, n - 1)

BitAnd(a, b) == BitAndN(a, b, 16)

BitNot(a) == 65535 - a

BitOr(a, b) == a + b - BitAnd(a, b)


\* ------------------------------------------------------------- the state
VARIABLES
    heap,           \* the relation's main fork in shared buffers: heap[b + 1] is block b
    vm,             \* the visibility map page: vm[b] are the bits of block b
    dirty,          \* heap blocks whose buffer is marked dirty
    vmDirty,        \* whether the visibility map buffer is marked dirty
    wal,            \* the write-ahead log since the last checkpoint
    flushed,        \* how many records of wal are on disk
    diskHeap,       \* the main fork on disk
    diskVm,         \* the visibility map on disk
    relpersistence, \* pg_class.relpersistence of the relation: "p" or "u"
    pins,           \* heap blocks this backend holds a pin on
    locks,          \* heap blocks this backend holds the cleanup lock on
    vmbuf,          \* whether this backend holds a pin on the visibility map page
    CritSectionCount,
    pc,             \* where heap_force_common stands
    call,           \* the arguments and caller of the running call
    result,         \* how the call ended: "none", "ok" or the error raised
    tids,           \* the tid array (sorted in place by qsort)
    loc,            \* the locals of heap_force_common
    notices,        \* the NOTICEs the call has sent
    reads,          \* history: the blocks the call has passed to ReadBuffer
    killed,         \* history: the tids whose processing set an item dead
    grp,            \* history: the page group holding the cleanup lock
    snap,           \* history: the storage as the running call found it
    trace,          \* history: the page groups taken, what was done for the last
    rd,             \* another session that reads a page
    QueryCancelPending

storage == <<heap, vm, dirty, vmDirty, wal, flushed, diskHeap, diskVm, relpersistence>>
buffers == <<pins, locks, vmbuf, CritSectionCount>>
backend == <<pc, call, result, tids, loc, notices>>
history == <<reads, killed, grp, snap, trace>>
others == <<rd, QueryCancelPending>>
vars == <<storage, buffers, backend, history, others>>

\* ------------------------------------------------------- the damaged table
Tuple(xmin, xmax, field3, ctid, infomask, infomask2, data) ==
    [t_xmin |-> xmin, t_xmax |-> xmax, t_field3 |-> field3, t_ctid |-> ctid,
     t_infomask |-> infomask, t_infomask2 |-> infomask2, data |-> data]

ItemId(flags, off, len) == [lp_flags |-> flags, lp_off |-> off, lp_len |-> len]

\* An updated row of a lost transaction: its t_ctid points at a successor.
TupA == Tuple(100, 101, 7, <<0, 3>>,
              HEAP_HASNULL + HEAP_XMIN_COMMITTED + HEAP_XMAX_COMMITTED,
              HEAP_HOT_UPDATED + HEAP_KEYS_UPDATED + 1, "a")
\* Its successor, a heap-only tuple that an old-style VACUUM FULL moved in;
\* t_field3 holds xvac.
TupB == Tuple(101, 0, 60, <<0, 3>>,
              HEAP_MOVED_IN + HEAP_XMAX_INVALID + HEAP_UPDATED,
              HEAP_ONLY_TUPLE + 1, "b")

Page0 == [pd_all_visible |-> TRUE,
          lp |-> <<ItemId(LP_NORMAL, 1, 28), ItemId(LP_REDIRECT, 1, 0),
                   ItemId(LP_NORMAL, 2, 28)>>,
          items |-> (1 :> TupA @@ 2 :> TupB)]
\* Items 3 and 4 redirect to each other: a damaged line pointer array.
Page1 == [pd_all_visible |-> FALSE,
          lp |-> <<ItemId(LP_DEAD, 0, 0), ItemId(LP_UNUSED, 0, 0),
                   ItemId(LP_REDIRECT, 4, 0), ItemId(LP_REDIRECT, 3, 0)>>,
          items |-> <<>>]
\* A block another session has just added: PageInit has left it empty.
EmptyPage == [pd_all_visible |-> FALSE, lp |-> <<>>, items |-> <<>>]

InitHeap == <<Page0, Page1>>
InitBlocks == Len(InitHeap)
MaxBlocks == InitBlocks + MaxExtend
Blocks == 0 .. (MaxBlocks - 1)
InitVm == [b \in Blocks |->
              IF b = 0 THEN VISIBILITYMAP_ALL_VISIBLE + VISIBILITYMAP_ALL_FROZEN ELSE 0]

\* The tids a caller passes: every kind of item of the table, offsets 0 and
\* past the last item, and a block past the end of the relation.
TidUniverse ==
    {<<0, 0>>, <<0, 1>>, <<0, 2>>, <<0, 3>>, <<0, 4>>,
     <<1, 1>>, <<1, 2>>, <<1, 3>>, <<2, 1>>}

\* The objects of the regression test, and a TOAST table. htab is the damaged
\* table, the one the model keeps the pages of: a call on the materialized
\* view or on the TOAST table is followed as on a relation without blocks.
Relations == {"htab", "mvw", "pg_toast", "ptab", "ptab_idx", "vw", "seq"}
relkind(relid) ==
    CASE relid = "htab" -> RELKIND_RELATION
      [] relid = "mvw" -> RELKIND_MATVIEW
      [] relid = "pg_toast" -> RELKIND_TOASTVALUE
      [] relid = "ptab" -> RELKIND_PARTITIONED_TABLE
      [] relid = "ptab_idx" -> RELKIND_INDEX
      [] relid = "vw" -> RELKIND_VIEW
      [] relid = "seq" -> RELKIND_SEQUENCE

NoCall == [opt |-> HEAP_FORCE_KILL, recovery |-> FALSE, hasnull |-> FALSE,
           ntids |-> 0, relid |-> "htab", owner |-> TRUE]
NoLoc == [nblocks |-> 0, noffs |-> 0, curr_start_ptr |-> 0, next_start_ptr |-> 0,
          offnos |-> <<>>, blkno |-> 0, maxoffset |-> 0, i |-> 0, itemid |-> 0,
          did_modify_page |-> FALSE, did_modify_vm |-> FALSE]
NoGrp == [blk |-> InvalidBlockNumber]
NoSnap == [heap |-> <<>>]
NoTrace == [groups |-> <<>>, events |-> <<>>, hops |-> 0]
NoReader == [st |-> "none", blk |-> InvalidBlockNumber]

\* The backend between two statements, the table as created; the visibility
\* map and the persistence of the table are left to the specification.
InitBackend ==
    /\ heap = InitHeap
    /\ dirty = {}
    /\ vmDirty = FALSE
    /\ wal = <<>>
    /\ flushed = 0
    /\ diskHeap = InitHeap
    /\ pins = {}
    /\ locks = {}
    /\ vmbuf = FALSE
    /\ CritSectionCount = 0
    /\ pc = "idle"
    /\ call = NoCall
    /\ result = "none"
    /\ tids = <<>>
    /\ loc = NoLoc
    /\ notices = <<>>
    /\ reads = {}
    /\ killed = {}
    /\ grp = NoGrp
    /\ snap = NoSnap
    /\ trace = NoTrace
    /\ rd = NoReader
    /\ QueryCancelPending = FALSE

Init ==
    /\ InitBackend
    /\ vm = InitVm
    /\ diskVm = InitVm
    /\ relpersistence = "p"

\* ------------------------------------------------------ pages and items
BufferGetPage(b) == heap[b + 1]
PageGetMaxOffsetNumber(page) == Len(page.lp)
PageIsAllVisible(page) == page.pd_all_visible
PageGetItemId(page, offno) == page.lp[offno]
PageGetItem(page, itemid) == page.items[itemid.lp_off]
ItemIdIsRedirected(itemid) == itemid.lp_flags = LP_REDIRECT
ItemIdGetRedirect(itemid) == itemid.lp_off
ItemIdIsUsed(itemid) == itemid.lp_flags # LP_UNUSED
ItemIdIsDead(itemid) == itemid.lp_flags = LP_DEAD
ItemIdIsNormal(itemid) == itemid.lp_flags = LP_NORMAL
\* ItemIdSetUnused, the macro next to ItemIdSetDead in itemid.h.
ItemIdSetUnused(itemid) == ItemId(LP_UNUSED, 0, 0)
ItemIdSetDead(itemid) == ItemId(LP_DEAD, 0, 0)
RelationGetNumberOfBlocks(relid) == IF relid = "htab" THEN Len(heap) ELSE 0
\* Every relation logged, the unlogged ones too.
RelationNeedsWALAlways == TRUE

RelationNeedsWAL == relpersistence = "p"

\* A visibilitymap_clear that tests the bits and clears none.
visibilitymap_test(map, blk, flags) == map

\* visibilitymap_clear: clears the bits of flags that are set, and dirties the
\* map page only if it cleared one.
visibilitymap_clear(map, blk, flags) ==
    [map EXCEPT ![blk] = BitAnd(map[blk], BitNot(flags))]

\* ------------------------------------------------------- the tid array
\* ItemPointerCompare: by block number, then by offset number.
\* A comparison of the block numbers alone.
tidcmp_blkno(a, b) ==
    IF a[1] < b[1] THEN -1
    ELSE IF a[1] > b[1] THEN 1
    ELSE 0

tidcmp(a, b) ==
    IF a[1] < b[1] THEN -1
    ELSE IF a[1] > b[1] THEN 1
    ELSE IF a[2] < b[2] THEN -1
    ELSE IF a[2] > b[2] THEN 1
    ELSE 0

\* The array with x put before the first element that compares greater.
RECURSIVE SortedInsert(_, _)
SortedInsert(s, x) ==
    IF s = <<>> THEN <<x>>
    ELSE IF tidcmp(x, Head(s)) < 0 THEN <<x>> \o s
    ELSE <<Head(s)>> \o SortedInsert(Tail(s), x)

\* qsort(tids, ntids, sizeof(ItemPointerData), tidcmp)
RECURSIVE qsort(_)
qsort(s) == IF s = <<>> THEN <<>> ELSE SortedInsert(qsort(Tail(s)), Head(s))

\* The loop of tids_same_page_fetch_offnums from index i (0-based) on; start is
\* *next_start_ptr on entry.
RECURSIVE FetchLoop(_, _, _, _, _, _)
FetchLoop(ta, ntids, start, i, prev_blkno, offnos) ==
    IF i < ntids
    THEN LET tid == ta[i + 1]
             blkno == tid[1]
             offno == tid[2]
         IN IF i = start \/ prev_blkno = blkno
            THEN FetchLoop(ta, ntids, start, i + 1, blkno,
                           [offnos EXCEPT ![i - start + 1] = offno])
            ELSE [blkno |-> prev_blkno, next_start_ptr |-> i % 65536, offnos |-> offnos]
    ELSE [blkno |-> prev_blkno, next_start_ptr |-> i % 65536, offnos |-> offnos]

tids_same_page_fetch_offnums(ta, ntids, next_start_ptr, offnos) ==
    FetchLoop(ta, ntids, next_start_ptr, next_start_ptr, InvalidBlockNumber, offnos)

\* ------------------------------------------------------------ validation
sanity_check_tid_array(hasnull, ntids) ==
    IF hasnull THEN "NullValueNotAllowed"
    ELSE IF ntids = 0 THEN "EmptyInput"
    ELSE "ok"

\* A sanity_check_relation without the pg_class_ownercheck of lines 374-378.
sanity_check_relkind(kind, owner) ==
    IF kind # RELKIND_RELATION /\ kind # RELKIND_MATVIEW
       /\ kind # RELKIND_TOASTVALUE
    THEN "WrongObjectType"
    ELSE "ok"

sanity_check_relation(kind, owner) ==
    IF kind # RELKIND_RELATION /\ kind # RELKIND_MATVIEW
       /\ kind # RELKIND_TOASTVALUE
    THEN "WrongObjectType"
    ELSE IF ~owner THEN "NotOwner"
    ELSE "ok"

\* The checks of heap_force_common in the order it makes them.
Validate(c) ==
    IF c.recovery THEN "RecoveryInProgress"
    ELSE IF sanity_check_tid_array(c.hasnull, c.ntids) # "ok"
         THEN sanity_check_tid_array(c.hasnull, c.ntids)
    ELSE sanity_check_relation(relkind(c.relid), c.owner)

\* An ereport(ERROR) that comes after the first block was read and pinned.
RaiseErrorAfterRead(c, err) ==
    /\ pc' = "error"
    /\ call' = c
    /\ result' = err
    /\ reads' = {0}
    /\ pins' = {0}
    /\ UNCHANGED <<tids, loc, notices, killed, grp, snap, trace>>
    /\ UNCHANGED <<storage, locks, vmbuf, CritSectionCount>>
    /\ UNCHANGED others

\* ereport(ERROR): the call ends there.
RaiseError(c, err) ==
    /\ pc' = "error"
    /\ call' = c
    /\ result' = err
    /\ UNCHANGED <<tids, loc, notices>>
    /\ UNCHANGED <<storage, buffers, history>>
    /\ UNCHANGED others

\* Lines 107-119: sort the array, allocate offnos, read the block count.
StartLoop(c, ta) ==
    /\ pc' = "fetch"
    /\ call' = c
    /\ result' = "none"
    /\ tids' = IF c.ntids > 1 THEN qsort(ta) ELSE ta
    /\ loc' = [NoLoc EXCEPT !.offnos = [k \in 1 .. c.ntids |-> 0],
                            !.nblocks = RelationGetNumberOfBlocks(c.relid)]
    /\ notices' = <<>>
    /\ reads' = {}
    /\ snap' = [heap |-> heap, vm |-> vm, dirty |-> dirty, vmDirty |-> vmDirty,
                wal |-> wal, killed |-> killed]
    /\ UNCHANGED <<killed, grp>>
    /\ UNCHANGED <<storage, buffers>>
    /\ trace' = NoTrace
    /\ UNCHANGED others

\* heap_force_kill / heap_force_freeze up to the loop over the page groups.
\* A call starts after the checkpoint of the records the call before it wrote,
\* so that wal holds the running call's records only.
Begin ==
    /\ pc = "idle"
    /\ wal = <<>> /\ dirty = {} /\ ~vmDirty
    /\ \E opt \in {HEAP_FORCE_KILL, HEAP_FORCE_FREEZE}, recovery \in BOOLEAN,
          hasnull \in BOOLEAN, relid \in Relations, owner \in BOOLEAN,
          ntids \in 0 .. MaxTids :
          LET c == [opt |-> opt, recovery |-> recovery, hasnull |-> hasnull,
                    ntids |-> ntids, relid |-> relid, owner |-> owner]
          IN IF Validate(c) # "ok"
             THEN RaiseError(c, Validate(c))
             ELSE \E ta \in [1 .. ntids -> TidUniverse] : StartLoop(c, ta)

Notice(msg, blk, off) == [msg |-> msg, blkno |-> blk, offno |-> off]

\* A range check that lets the block right after the last one through.
BlockPastNext(blkno, nblocks) == blkno > nblocks

\* Line 150: whether the block number is valid.
BlockOutOfRange(blkno, nblocks) == blkno >= nblocks

\* The while of the do loop (line 303).
LoopCond(next_start_ptr) == IF next_start_ptr # call.ntids THEN "fetch" ELSE "close"

\* Lines 136-157: the next page group and the block range check.
\* Lines 121-147: the locals of the pass once the group is fetched.
FetchedLoc(f) ==
    [loc EXCEPT !.blkno = f.blkno,
                !.next_start_ptr = f.next_start_ptr,
                !.offnos = f.offnos,
                !.noffs = (f.next_start_ptr - loc.curr_start_ptr) % 65536,
                !.curr_start_ptr = f.next_start_ptr,
                !.did_modify_page = FALSE,
                !.did_modify_vm = FALSE]

\* The group as the pass will visit it: its block and offnos[0 .. noffs - 1].
FetchedTrace(f) ==
    [groups |-> Append(trace.groups,
                    [blkno |-> f.blkno,
                     offs |-> SubSeq(f.offnos, 1,
                                 (f.next_start_ptr - loc.curr_start_ptr) % 65536)]),
     events |-> <<>>, hops |-> 0]

FetchGroup ==
    /\ pc = "fetch"
    /\ LET f == tids_same_page_fetch_offnums(tids, call.ntids,
                                             loc.next_start_ptr, loc.offnos)
       IN /\ loc' = FetchedLoc(f)
          /\ trace' = FetchedTrace(f)
          /\ IF BlockOutOfRange(f.blkno, loc.nblocks)
             THEN /\ notices' = Append(notices, Notice("block out of range", f.blkno, 0))
                  /\ pc' = LoopCond(f.next_start_ptr)
             ELSE /\ notices' = notices
                  /\ pc' = "read"
    /\ UNCHANGED <<call, result, tids>>
    /\ UNCHANGED <<storage, buffers, reads, killed, grp, snap>>
    /\ UNCHANGED others

\* A CHECK_FOR_INTERRUPTS that acts on a pending cancel wherever it stands.
InterruptHonoredAnywhere == QueryCancelPending

\* CHECK_FOR_INTERRUPTS: ProcessInterrupts acts on a pending cancel unless the
\* backend is in a critical section, where the cancel stays pending.
InterruptHonored == QueryCancelPending /\ CritSectionCount = 0

\* Lines 159-161: CHECK_FOR_INTERRUPTS, then ReadBuffer pins the block; a
\* block past the end of the relation cannot be read.
ReadBuffer ==
    /\ pc = "read"
    /\ IF InterruptHonored
       THEN /\ pc' = "error"
            /\ result' = "QueryCanceled"
            /\ QueryCancelPending' = FALSE
            /\ UNCHANGED <<reads, pins>>
       ELSE /\ reads' = reads \cup {loc.blkno}
            /\ QueryCancelPending' = QueryCancelPending
            /\ IF loc.blkno < RelationGetNumberOfBlocks(call.relid)
               THEN /\ pins' = pins \cup {loc.blkno}
                    /\ pc' = "lock"
                    /\ result' = result
               ELSE /\ pins' = pins
                    /\ pc' = "error"
                    /\ result' = "CouldNotReadBlock"
    /\ UNCHANGED <<call, tids, loc, notices, killed, grp, snap, trace, rd>>
    /\ UNCHANGED <<storage, locks, vmbuf, CritSectionCount>>

\* Whether another session holds a pin on the block.
OtherPins(b) == rd.st # "none" /\ rd.blk = b

\* LockBuffer(buf, BUFFER_LOCK_EXCLUSIVE) in the place of the cleanup lock: it
\* waits for the content lock only, not for the other pins to go.
LockBufferExclusive ==
    /\ pc = "lock"
    /\ ~(rd.st = "locked" /\ rd.blk = loc.blkno)
    /\ locks' = locks \cup {loc.blkno}
    /\ grp' = [blk |-> loc.blkno, pre |-> BufferGetPage(loc.blkno),
               clean |-> loc.blkno \notin dirty, opt |-> call.opt,
               offs |-> SubSeq(loc.offnos, 1, loc.noffs)]
    /\ pc' = "pinvm"
    /\ UNCHANGED <<call, result, tids, loc, notices, reads, killed, snap, trace>>
    /\ UNCHANGED <<storage, pins, vmbuf, CritSectionCount>>
    /\ UNCHANGED others

\* Line 162: the cleanup lock, granted when this backend's pin is the only
\* pin on the buffer.
LockBufferForCleanup ==
    /\ pc = "lock"
    /\ ~OtherPins(loc.blkno)
    /\ locks' = locks \cup {loc.blkno}
    /\ grp' = [blk |-> loc.blkno, pre |-> BufferGetPage(loc.blkno),
               clean |-> loc.blkno \notin dirty, opt |-> call.opt,
               offs |-> SubSeq(loc.offnos, 1, loc.noffs)]
    /\ pc' = "pinvm"
    /\ UNCHANGED <<call, result, tids, loc, notices, reads, killed, snap, trace>>
    /\ UNCHANGED <<storage, pins, vmbuf, CritSectionCount>>
    /\ UNCHANGED others

\* A test for the visibility map pin that leaves the option out.
NeedsVmPinAnyOption(opt, page) == PageIsAllVisible(page)

\* Line 172: the visibility map page is pinned for heap_force_kill on an
\* all-visible page.
NeedsVmPin(opt, page) == opt = HEAP_FORCE_KILL /\ PageIsAllVisible(page)

\* Lines 164-176: the page's last offset, the visibility map pin, and the
\* start of the critical section.
StartCritSection ==
    /\ pc = "pinvm"
    /\ LET page == BufferGetPage(loc.blkno)
       IN /\ loc' = [loc EXCEPT !.maxoffset = PageGetMaxOffsetNumber(page), !.i = 0]
          /\ vmbuf' = NeedsVmPin(call.opt, page)
    /\ CritSectionCount' = CritSectionCount + 1
    /\ pc' = "loop"
    /\ UNCHANGED <<call, result, tids, notices>>
    /\ UNCHANGED <<storage, pins, locks, history>>
    /\ UNCHANGED others

\* ------------------------------------------------------ the row mutators
\* A freeze that leaves the old hint bits of t_infomask in place (|= without
\* the &= ~HEAP_XACT_MASK of line 272).
FreezeTupleKeepBits(htup, blkno, offno) ==
    [htup EXCEPT !.t_ctid = <<blkno, offno>>,
                 !.t_xmin = FrozenTransactionId,
                 !.t_xmax = InvalidTransactionId,
                 !.t_field3 = IF BitAnd(htup.t_infomask, HEAP_MOVED) = 0 THEN @
                              ELSE IF BitAnd(htup.t_infomask, HEAP_MOVED_OFF) # 0
                              THEN InvalidTransactionId ELSE FrozenTransactionId,
                 !.t_infomask = BitOr(@, BitOr(HEAP_XMIN_FROZEN, HEAP_XMAX_INVALID)),
                 !.t_infomask2 = BitAnd(BitAnd(@, BitNot(HEAP_HOT_UPDATED)),
                                        BitNot(HEAP_KEYS_UPDATED))]

\* A freeze with the test of line 259 inverted: xvac is set for the tuples
\* that were not moved.
FreezeTupleNotMoved(htup, blkno, offno) ==
    [htup EXCEPT !.t_ctid = <<blkno, offno>>,
                 !.t_xmin = FrozenTransactionId,
                 !.t_xmax = InvalidTransactionId,
                 !.t_field3 = IF BitAnd(htup.t_infomask, HEAP_MOVED) # 0 THEN @
                              ELSE IF BitAnd(htup.t_infomask, HEAP_MOVED_OFF) # 0
                              THEN InvalidTransactionId ELSE FrozenTransactionId,
                 !.t_infomask = BitOr(BitAnd(@, BitNot(HEAP_XACT_MASK)),
                                      BitOr(HEAP_XMIN_FROZEN, HEAP_XMAX_INVALID)),
                 !.t_infomask2 = BitAnd(BitAnd(@, BitNot(HEAP_HOT_UPDATED)),
                                        BitNot(HEAP_KEYS_UPDATED))]

\* Lines 244-275: the tuple header after heap_force_freeze of the tid
\* (blkno, offno).
FreezeTuple(htup, blkno, offno) ==
    LET ctid == <<blkno, offno>>
        h1 == IF ctid # htup.t_ctid THEN [htup EXCEPT !.t_ctid = ctid] ELSE htup
        h2 == [h1 EXCEPT !.t_xmin = FrozenTransactionId,
                         !.t_xmax = InvalidTransactionId]
        h3 == IF BitAnd(h2.t_infomask, HEAP_MOVED) # 0
              THEN IF BitAnd(h2.t_infomask, HEAP_MOVED_OFF) # 0
                   THEN [h2 EXCEPT !.t_field3 = InvalidTransactionId]
                   ELSE [h2 EXCEPT !.t_field3 = FrozenTransactionId]
              ELSE h2
    IN [h3 EXCEPT
          !.t_infomask = BitOr(BitAnd(h3.t_infomask, BitNot(HEAP_XACT_MASK)),
                               BitOr(HEAP_XMIN_FROZEN, HEAP_XMAX_INVALID)),
          !.t_infomask2 = BitAnd(BitAnd(h3.t_infomask2, BitNot(HEAP_HOT_UPDATED)),
                                 BitNot(HEAP_KEYS_UPDATED))]

\* Lines 219-236: the page after heap_force_kill of the item at offno.
KillItem(page, offno) ==
    [page EXCEPT !.lp[offno] = ItemIdSetDead(page.lp[offno]),
                 !.pd_all_visible = FALSE]

\* Lines 237-276: the page after heap_force_freeze of the item at offno, named
\* by the tid (blkno, tidoff).
FreezeItem(page, offno, blkno, tidoff) ==
    [page EXCEPT !.items[page.lp[offno].lp_off] =
                     FreezeTuple(PageGetItem(page, page.lp[offno]), blkno, tidoff)]

\* A loop over the group's offsets that stops one short.
MoreOffsetsButLast(i, noffs) == i < noffs - 1

\* A break where line 188 has continue.
AfterSkipBreak(i, noffs) == noffs

\* Line 178: the condition of the loop over the group's offsets.
MoreOffsets(i, noffs) == i < noffs

\* Line 188: continue goes on with the next offset.
AfterSkip(i, noffs) == i + 1

\* Lines 178-191: the head of the loop over the group's offsets.
NextOffset ==
    /\ pc = "loop"
    /\ IF MoreOffsets(loc.i, loc.noffs)
       THEN LET offno == loc.offnos[loc.i + 1]
            IN IF offno = 0 \/ offno > loc.maxoffset
               THEN /\ notices' = Append(notices,
                                         Notice("item out of range", loc.blkno, offno))
                    /\ loc' = [loc EXCEPT !.i = AfterSkip(loc.i, loc.noffs)]
                    /\ pc' = "loop"
               ELSE /\ notices' = notices
                    /\ loc' = [loc EXCEPT !.itemid = offno]
                    /\ pc' = "redirect"
       ELSE /\ notices' = notices
            /\ loc' = loc
            /\ pc' = "dirty"
    /\ UNCHANGED <<call, result, tids>>
    /\ UNCHANGED <<storage, buffers, reads, killed, grp, snap>>
    /\ trace' = [trace EXCEPT !.hops = 0]
    /\ UNCHANGED others

\* Lines 194-199: one turn of the loop that follows redirections, with the
\* CHECK_FOR_INTERRUPTS that ends it. trace.hops counts the turns taken for
\* the offset, up to MaxHops.
FollowRedirect ==
    /\ pc = "redirect"
    /\ ItemIdIsRedirected(PageGetItemId(BufferGetPage(loc.blkno), loc.itemid))
    /\ loc' = [loc EXCEPT !.itemid =
                  ItemIdGetRedirect(PageGetItemId(BufferGetPage(loc.blkno), loc.itemid))]
    /\ trace' = [trace EXCEPT !.hops = IF @ < MaxHops THEN @ + 1 ELSE @]
    /\ IF InterruptHonored
       THEN /\ pc' = "error"
            /\ result' = "QueryCanceled"
            /\ QueryCancelPending' = FALSE
       ELSE UNCHANGED <<pc, result, QueryCancelPending>>
    /\ UNCHANGED <<call, tids, notices, rd>>
    /\ UNCHANGED <<storage, buffers, reads, killed, grp, snap>>

\* Line 202: nothing to do if the item is unused or already dead.
NothingToDo(itemid) == ~ItemIdIsUsed(itemid) \/ ItemIdIsDead(itemid)

\* Lines 201-276: skip the item, kill it or freeze it.
ProcessItem ==
    /\ pc = "redirect"
    /\ LET page == BufferGetPage(loc.blkno)
           itemid == PageGetItemId(page, loc.itemid)
           offno == loc.offnos[loc.i + 1]
       IN /\ ~ItemIdIsRedirected(itemid)
          /\ IF NothingToDo(itemid)
             THEN /\ notices' = Append(notices,
                        Notice(IF ~ItemIdIsUsed(itemid) THEN "marked unused"
                               ELSE "marked dead", loc.blkno, offno))
                  /\ loc' = [loc EXCEPT !.i = loc.i + 1]
                  /\ UNCHANGED <<heap, vm, vmDirty, killed>>
             ELSE IF call.opt = HEAP_FORCE_KILL
             THEN /\ heap' = [heap EXCEPT ![loc.blkno + 1] = KillItem(page, loc.itemid)]
                  /\ IF PageIsAllVisible(page)
                     THEN /\ vm' = visibilitymap_clear(vm, loc.blkno,
                                                       VISIBILITYMAP_ALL_VISIBLE)
                          /\ vmDirty' = (vmDirty \/ vm'[loc.blkno] # vm[loc.blkno])
                          /\ loc' = [loc EXCEPT !.i = loc.i + 1,
                                                !.did_modify_page = TRUE,
                                                !.did_modify_vm = TRUE]
                     ELSE /\ UNCHANGED <<vm, vmDirty>>
                          /\ loc' = [loc EXCEPT !.i = loc.i + 1,
                                                !.did_modify_page = TRUE]
                  /\ killed' = killed \cup {<<loc.blkno, offno>>}
                  /\ notices' = notices
             ELSE /\ heap' = [heap EXCEPT ![loc.blkno + 1] =
                                  FreezeItem(page, loc.itemid, loc.blkno, offno)]
                  /\ loc' = [loc EXCEPT !.i = loc.i + 1, !.did_modify_page = TRUE]
                  /\ notices' = notices
                  /\ UNCHANGED <<vm, vmDirty, killed>>
    /\ pc' = "loop"
    /\ trace' = [trace EXCEPT
                    !.hops = 0,
                    !.events = IF heap' # heap /\ (@ = <<>> \/ @[Len(@)] # "mutate")
                               THEN Append(@, "mutate") ELSE @]
    /\ UNCHANGED <<call, result, tids, reads, grp, snap>>
    /\ UNCHANGED <<dirty, wal, flushed, diskHeap, diskVm, relpersistence, buffers>>
    /\ UNCHANGED others

\* A MarkBufferDirty outside the test of did_modify_page.
MarkBufferDirtyAlways ==
    /\ pc = "dirty"
    /\ dirty' = dirty \cup {loc.blkno}
    /\ pc' = "logheap"
    /\ UNCHANGED <<call, result, tids, loc, notices>>
    /\ UNCHANGED <<heap, vm, vmDirty, wal, flushed, diskHeap, diskVm, relpersistence>>
    /\ UNCHANGED <<buffers, reads, killed, grp, snap>>
    /\ trace' = [trace EXCEPT !.events = Append(@, "dirty")]
    /\ UNCHANGED others

\* ------------------------------------------------ the end of a page group
\* Lines 283-286.
MarkBufferDirty ==
    /\ pc = "dirty"
    /\ dirty' = IF loc.did_modify_page THEN dirty \cup {loc.blkno} ELSE dirty
    /\ pc' = "logheap"
    /\ UNCHANGED <<call, result, tids, loc, notices>>
    /\ UNCHANGED <<heap, vm, vmDirty, wal, flushed, diskHeap, diskVm, relpersistence>>
    /\ UNCHANGED <<buffers, reads, killed, grp, snap>>
    /\ trace' = IF loc.did_modify_page
                THEN [trace EXCEPT !.events = Append(@, "dirty")] ELSE trace
    /\ UNCHANGED others

\* log_newpage_buffer: a record holding the whole page.
HeapRecord(blk) == [fork |-> "main", blkno |-> blk, page |-> BufferGetPage(blk)]
VmRecord == [fork |-> "vm", blkno |-> 0, page |-> vm]

\* The page logged at the end of every group, changed or not.
LogHeapPageAlways ==
    /\ pc = "logheap"
    /\ wal' = IF RelationNeedsWAL THEN Append(wal, HeapRecord(loc.blkno)) ELSE wal
    /\ pc' = "logvm"
    /\ UNCHANGED <<call, result, tids, loc, notices>>
    /\ UNCHANGED <<heap, vm, dirty, vmDirty, flushed, diskHeap, diskVm, relpersistence>>
    /\ UNCHANGED <<buffers, reads, killed, grp, snap>>
    /\ trace' = IF wal' # wal
                THEN [trace EXCEPT !.events = Append(@, "logheap")] ELSE trace
    /\ UNCHANGED others

\* Lines 288-290.
LogHeapPage ==
    /\ pc = "logheap"
    /\ wal' = IF loc.did_modify_page /\ RelationNeedsWAL
              THEN Append(wal, HeapRecord(loc.blkno)) ELSE wal
    /\ pc' = "logvm"
    /\ UNCHANGED <<call, result, tids, loc, notices>>
    /\ UNCHANGED <<heap, vm, dirty, vmDirty, flushed, diskHeap, diskVm, relpersistence>>
    /\ UNCHANGED <<buffers, reads, killed, grp, snap>>
    /\ trace' = IF wal' # wal
                THEN [trace EXCEPT !.events = Append(@, "logheap")] ELSE trace
    /\ UNCHANGED others

\* Lines 293-295.
LogVmPage ==
    /\ pc = "logvm"
    /\ wal' = IF loc.did_modify_vm /\ RelationNeedsWAL
              THEN Append(wal, VmRecord) ELSE wal
    /\ pc' = "unlock"
    /\ UNCHANGED <<call, result, tids, loc, notices>>
    /\ UNCHANGED <<heap, vm, dirty, vmDirty, flushed, diskHeap, diskVm, relpersistence>>
    /\ UNCHANGED <<buffers, reads, killed, grp, snap>>
    /\ trace' = IF wal' # wal
                THEN [trace EXCEPT !.events = Append(@, "logvm")] ELSE trace
    /\ UNCHANGED others

\* Lines 297-299: END_CRIT_SECTION and UnlockReleaseBuffer.
UnlockReleaseBuffer ==
    /\ pc = "unlock"
    /\ CritSectionCount' = CritSectionCount - 1
    /\ locks' = locks \ {loc.blkno}
    /\ pins' = pins \ {loc.blkno}
    /\ grp' = NoGrp
    /\ pc' = "relvm"
    /\ UNCHANGED <<call, result, tids, loc, notices, reads, killed, snap, vmbuf>>
    /\ UNCHANGED storage
    /\ trace' = [trace EXCEPT !.events = Append(@, "unlock")]
    /\ UNCHANGED others

\* Lines 301-303: release the visibility map pin; the loop condition.
\* The pin on the map page dropped only when the map was changed.
ReleaseVmBufferIfModified ==
    /\ pc = "relvm"
    /\ vmbuf' = IF loc.did_modify_vm THEN FALSE ELSE vmbuf
    /\ pc' = LoopCond(loc.next_start_ptr)
    /\ UNCHANGED <<call, result, tids, loc, notices>>
    /\ UNCHANGED <<storage, pins, locks, CritSectionCount, history>>
    /\ UNCHANGED others

ReleaseVmBuffer ==
    /\ pc = "relvm"
    /\ vmbuf' = FALSE
    /\ pc' = LoopCond(loc.next_start_ptr)
    /\ UNCHANGED <<call, result, tids, loc, notices>>
    /\ UNCHANGED <<storage, pins, locks, CritSectionCount, history>>
    /\ UNCHANGED others

\* Lines 305-310.
Return ==
    /\ pc = "close"
    /\ pc' = "done"
    /\ result' = "ok"
    /\ UNCHANGED <<call, tids, loc, notices>>
    /\ UNCHANGED <<storage, buffers, history>>
    /\ UNCHANGED others

\* The statement is over (returned, or aborted by the error): the next
\* statement of the session can start.
EndOfStatement ==
    /\ pc \in {"done", "error"}
    /\ pc' = "idle"
    /\ call' = NoCall
    /\ result' = "none"
    /\ tids' = <<>>
    /\ loc' = NoLoc
    /\ notices' = <<>>
    /\ reads' = {}
    /\ pins' = {}
    /\ locks' = {}
    /\ vmbuf' = FALSE
    /\ CritSectionCount' = 0
    /\ snap' = NoSnap
    /\ UNCHANGED <<killed, grp>>
    /\ UNCHANGED storage
    /\ trace' = NoTrace
    /\ QueryCancelPending' = FALSE
    /\ rd' = rd

\* ------------------------------------------------------ the other processes
\* Another session extends the relation by one block (RowExclusiveLock does
\* not keep it from doing so).
ExtendRelation ==
    /\ pc \notin {"crashed", "recovered"}
    /\ Len(heap) < MaxBlocks
    /\ heap' = Append(heap, EmptyPage)
    /\ diskHeap' = Append(diskHeap, EmptyPage)
    /\ UNCHANGED <<vm, dirty, vmDirty, wal, flushed, diskVm, relpersistence>>
    /\ UNCHANGED <<buffers, backend, history>>
    /\ UNCHANGED others

\* A checkpoint between two statements: the log is flushed, every dirty buffer
\* written, the log before the checkpoint no longer needed.
Checkpoint ==
    /\ pc = "idle"
    /\ wal # <<>> \/ dirty # {} \/ vmDirty
    /\ diskHeap' = heap
    /\ diskVm' = vm
    /\ dirty' = {}
    /\ vmDirty' = FALSE
    /\ wal' = <<>>
    /\ flushed' = 0
    /\ UNCHANGED <<heap, vm, relpersistence>>
    /\ UNCHANGED <<buffers, backend, history>>
    /\ UNCHANGED others

Next ==
    \/ Begin
    \/ FetchGroup
    \/ ReadBuffer
    \/ LockBufferForCleanup
    \/ StartCritSection
    \/ NextOffset
    \/ FollowRedirect
    \/ ProcessItem
    \/ MarkBufferDirty
    \/ LogHeapPage
    \/ LogVmPage
    \/ UnlockReleaseBuffer
    \/ ReleaseVmBuffer
    \/ Return
    \/ EndOfStatement
    \/ Checkpoint

Spec == Init /\ [][Next]_vars

\* ------------------------------------------------------- crash and redo
\* The WAL writer flushes the log.
WalFlush ==
    /\ pc \notin {"crashed", "recovered"}
    /\ flushed < Len(wal)
    /\ flushed' = Len(wal)
    /\ UNCHANGED <<heap, vm, dirty, vmDirty, wal, diskHeap, diskVm, relpersistence>>
    /\ UNCHANGED <<buffers, backend, history>>
    /\ UNCHANGED others

\* The background writer writes a dirty heap buffer: it takes the content lock
\* in share mode, which the cleanup lock excludes, and flushes the log first.
FlushBuffer ==
    /\ pc \notin {"crashed", "recovered"}
    /\ \E b \in dirty :
          /\ b \notin locks
          /\ diskHeap' = [diskHeap EXCEPT ![b + 1] = heap[b + 1]]
          /\ dirty' = dirty \ {b}
    /\ flushed' = Len(wal)
    /\ UNCHANGED <<heap, vm, vmDirty, wal, diskVm, relpersistence>>
    /\ UNCHANGED <<buffers, backend, history>>
    /\ UNCHANGED others

\* The background writer writes the visibility map buffer, which this backend
\* only pins.
FlushVmBuffer ==
    /\ pc \notin {"crashed", "recovered"}
    /\ vmDirty
    /\ diskVm' = vm
    /\ vmDirty' = FALSE
    /\ flushed' = Len(wal)
    /\ UNCHANGED <<heap, vm, dirty, wal, diskHeap, relpersistence>>
    /\ UNCHANGED <<buffers, backend, history>>
    /\ UNCHANGED others

\* The server crashes: shared buffers and the unflushed log are lost, and
\* with them the backend.
Crash ==
    /\ pc \notin {"crashed", "recovered"}
    /\ pc' = "crashed"
    /\ heap' = diskHeap
    /\ vm' = diskVm
    /\ dirty' = {}
    /\ vmDirty' = FALSE
    /\ wal' = SubSeq(wal, 1, flushed)
    /\ pins' = {}
    /\ locks' = {}
    /\ vmbuf' = FALSE
    /\ CritSectionCount' = 0
    /\ call' = NoCall
    /\ result' = "none"
    /\ tids' = <<>>
    /\ loc' = NoLoc
    /\ notices' = <<>>
    /\ reads' = {}
    /\ killed' = {}
    /\ snap' = NoSnap
    /\ UNCHANGED <<flushed, diskHeap, diskVm, relpersistence, grp>>
    /\ trace' = NoTrace
    /\ rd' = NoReader
    /\ QueryCancelPending' = FALSE

\* Redo of the records of log_newpage_buffer: each restores its page image.
RECURSIVE RedoHeap(_, _)
RedoHeap(h, log) ==
    IF log = <<>> THEN h
    ELSE RedoHeap(IF Head(log).fork = "main"
                  THEN [h EXCEPT ![Head(log).blkno + 1] = Head(log).page]
                  ELSE h,
                  Tail(log))

RECURSIVE RedoVm(_, _)
RedoVm(map, log) ==
    IF log = <<>> THEN map
    ELSE RedoVm(IF Head(log).fork = "vm" THEN Head(log).page ELSE map, Tail(log))

\* Crash recovery replays the log over the files and ends with a checkpoint.
Recover ==
    /\ pc = "crashed"
    /\ pc' = "recovered"
    /\ heap' = RedoHeap(heap, wal)
    /\ vm' = RedoVm(vm, wal)
    /\ diskHeap' = heap'
    /\ diskVm' = vm'
    /\ wal' = <<>>
    /\ flushed' = 0
    /\ UNCHANGED <<dirty, vmDirty, relpersistence>>
    /\ UNCHANGED <<call, result, tids, loc, notices>>
    /\ UNCHANGED <<buffers, history>>
    /\ UNCHANGED others

\* The server accepts connections again.
Restart ==
    /\ pc = "recovered"
    /\ pc' = "idle"
    /\ grp' = NoGrp
    /\ UNCHANGED <<call, result, tids, loc, notices, reads, killed, snap, trace>>
    /\ UNCHANGED <<storage, buffers>>
    /\ UNCHANGED others

NextCrash ==
    \/ Next
    \/ WalFlush
    \/ FlushBuffer
    \/ FlushVmBuffer
    \/ Crash
    \/ Recover
    \/ Restart

SpecCrash == Init /\ [][NextCrash]_vars

\* ------------------------------------------------------ a reading session
\* Another session scans a page the way heapgetpage does: it pins the
\* buffer, takes the content lock in share mode to find the rows it wants,
\* releases the lock and reads those rows under the pin alone.
ReaderPin ==
    /\ rd.st = "none"
    /\ \E b \in 0 .. (Len(heap) - 1) : rd' = [st |-> "pinned", blk |-> b]
    /\ UNCHANGED <<storage, buffers, backend, history, QueryCancelPending>>

\* LockBuffer(buf, BUFFER_LOCK_SHARE) waits while the cleanup lock is held.
ReaderLock ==
    /\ rd.st = "pinned"
    /\ rd.blk \notin locks
    /\ rd' = [rd EXCEPT !.st = "locked"]
    /\ UNCHANGED <<storage, buffers, backend, history, QueryCancelPending>>

ReaderUnlock ==
    /\ rd.st = "locked"
    /\ rd' = [rd EXCEPT !.st = "scanned"]
    /\ UNCHANGED <<storage, buffers, backend, history, QueryCancelPending>>

ReaderUnpin ==
    /\ rd.st \in {"pinned", "scanned"}
    /\ rd' = NoReader
    /\ UNCHANGED <<storage, buffers, backend, history, QueryCancelPending>>

NextReaders ==
    \/ Next
    \/ ReaderPin
    \/ ReaderLock
    \/ ReaderUnlock
    \/ ReaderUnpin

SpecReaders == Init /\ [][NextReaders]_vars

\* ------------------------------------------------------------ cancellation
\* The user cancels the statement while the call runs: the signal handler
\* sets QueryCancelPending, and the next CHECK_FOR_INTERRUPTS acts on it.
RequestCancel ==
    /\ pc \notin {"idle", "done", "error"}
    /\ ~QueryCancelPending
    /\ QueryCancelPending' = TRUE
    /\ UNCHANGED <<storage, buffers, backend, history, rd>>

NextCancel ==
    \/ Next
    \/ RequestCancel

SpecCancel == Init /\ [][NextCancel]_vars

\* ----------------------------------------------------- unlogged, stale map
\* The table is logged or unlogged, and the map bit of block 0 is set or has
\* been cleared already while PD_ALL_VISIBLE is still set on the page (the
\* page flag is a hint that may outlive the map bit).
InitVmCleared == [b \in Blocks |-> 0]

InitLogging ==
    /\ InitBackend
    /\ vm \in {InitVm, InitVmCleared}
    /\ diskVm = vm
    /\ relpersistence \in {"p", "u"}

SpecLogging == InitLogging /\ [][Next]_vars

\* --------------------------------------------------------------- grouping
\* The sort and the grouping alone, over every batch of up to MaxBatch tids
\* in every order: lines 109-119 and the fetch of each pass of the loop.
InitGroups ==
    /\ tids \in UNION {[1 .. n -> TidUniverse] : n \in 1 .. MaxBatch}
    /\ call = [NoCall EXCEPT !.ntids = Len(tids), !.relid = "htab"]
    /\ snap = [heap |-> InitHeap, batch |-> tids]
    /\ pc = "batch"
    /\ heap = InitHeap
    /\ vm = InitVm
    /\ dirty = {}
    /\ vmDirty = FALSE
    /\ wal = <<>>
    /\ flushed = 0
    /\ diskHeap = InitHeap
    /\ diskVm = InitVm
    /\ relpersistence = "p"
    /\ pins = {}
    /\ locks = {}
    /\ vmbuf = FALSE
    /\ CritSectionCount = 0
    /\ result = "none"
    /\ loc = NoLoc
    /\ notices = <<>>
    /\ reads = {}
    /\ killed = {}
    /\ grp = NoGrp
    /\ trace = NoTrace
    /\ rd = NoReader
    /\ QueryCancelPending = FALSE

\* Lines 109-119.
SortBatch ==
    /\ pc = "batch"
    /\ tids' = IF call.ntids > 1 THEN qsort(tids) ELSE tids
    /\ loc' = [NoLoc EXCEPT !.offnos = [k \in 1 .. call.ntids |-> 0],
                            !.nblocks = RelationGetNumberOfBlocks(call.relid)]
    /\ pc' = "group"
    /\ UNCHANGED <<call, result, notices>>
    /\ UNCHANGED <<storage, buffers, history, others>>

\* Lines 136-147 and the loop condition of line 303.
FetchOnly ==
    /\ pc = "group"
    /\ LET f == tids_same_page_fetch_offnums(tids, call.ntids,
                                             loc.next_start_ptr, loc.offnos)
       IN /\ loc' = FetchedLoc(f)
          /\ trace' = FetchedTrace(f)
          /\ pc' = IF LoopCond(f.next_start_ptr) = "fetch" THEN "group" ELSE "grouped"
    /\ UNCHANGED <<call, result, tids, notices>>
    /\ UNCHANGED <<storage, buffers, reads, killed, grp, snap, others>>

NextGroups ==
    \/ SortBatch
    \/ FetchOnly

SpecGroups == InitGroups /\ [][NextGroups]_vars

\* ------------------------------------------------------------ the cursors
\* The loop over the groups for batches too long to write out: a sorted batch
\* is given by the lengths of its runs of equal block number (run k is on
\* block k - 1), and the cursors are computed as the code computes them, in
\* the 16 bits of OffsetNumber.
RunLengths == {1, 2, 3, 65534, 65535, 65536, 65537}

RECURSIVE SumSeq(_)
SumSeq(s) == IF s = <<>> THEN 0 ELSE Head(s) + SumSeq(Tail(s))

\* The run that holds entry i (counted from 0) and the index past its end.
RECURSIVE RunOf(_, _, _, _)
RunOf(runs, k, before, i) ==
    IF before + runs[k] > i
    THEN [blkno |-> k - 1, end |-> before + runs[k]]
    ELSE RunOf(runs, k + 1, before + runs[k], i)

\* tids_same_page_fetch_offnums on the batch with these runs: the for loop
\* starts at the cursor, is not entered at or past ntids, and stops at the
\* end of the run; the int i is stored into the 16-bit cursor.
FetchRuns(runs, ntids, next_start_ptr) ==
    IF next_start_ptr < ntids
    THEN LET r == RunOf(runs, 1, 0, next_start_ptr)
         IN [blkno |-> r.blkno, next_start_ptr |-> r.end % 65536, offnos |-> <<>>]
    ELSE [blkno |-> InvalidBlockNumber, next_start_ptr |-> next_start_ptr % 65536,
          offnos |-> <<>>]

InitCursor ==
    /\ snap \in {[heap |-> <<>>, runs |-> r] :
                    r \in UNION {[1 .. n -> RunLengths] : n \in 1 .. 2}}
    /\ call = [NoCall EXCEPT !.ntids = SumSeq(snap.runs), !.relid = "htab"]
    /\ tids = <<>>
    /\ pc = "pass"
    /\ heap = InitHeap
    /\ vm = InitVm
    /\ dirty = {}
    /\ vmDirty = FALSE
    /\ wal = <<>>
    /\ flushed = 0
    /\ diskHeap = InitHeap
    /\ diskVm = InitVm
    /\ relpersistence = "p"
    /\ pins = {}
    /\ locks = {}
    /\ vmbuf = FALSE
    /\ CritSectionCount = 0
    /\ result = "none"
    /\ loc = NoLoc
    /\ notices = <<>>
    /\ reads = {}
    /\ killed = {}
    /\ grp = NoGrp
    /\ trace = NoTrace
    /\ rd = NoReader
    /\ QueryCancelPending = FALSE

\* One pass of the do loop, lines 136-147 and 303: the group is entries
\* curr_start_ptr .. curr_start_ptr + noffs - 1 of the batch.
CursorPass ==
    /\ pc = "pass"
    /\ Len(trace.groups) < MaxPasses
    /\ LET f == FetchRuns(snap.runs, call.ntids, loc.next_start_ptr)
       IN /\ loc' = FetchedLoc(f)
          /\ trace' = [trace EXCEPT !.groups =
                          Append(@, [blkno |-> f.blkno,
                                     start |-> loc.next_start_ptr,
                                     noffs |-> loc'.noffs])]
          /\ pc' = IF LoopCond(f.next_start_ptr) = "fetch" THEN "pass" ELSE "consumed"
    /\ UNCHANGED <<call, result, tids, notices>>
    /\ UNCHANGED <<storage, buffers, reads, killed, grp, snap, others>>

NextCursor == CursorPass

SpecCursor == InitCursor /\ [][NextCursor]_vars

\* The same with other sessions extending the relation.
NextExtend == Next \/ ExtendRelation
SpecExtend == Init /\ [][NextExtend]_vars

\* ------------------------------------------------- freezing any header
\* heap_force_freeze of one row whose header holds any combination of the
\* bits of t_infomask that HEAP_XACT_MASK covers and of the flags of
\* t_infomask2, reached directly or through a redirection, twice in a row.
FreezeHeaders ==
    {Tuple(100, 101, 60, ctid, 16 * k + HEAP_HASNULL, f + 1, "a") :
        ctid \in {<<0, 1>>, <<0, 3>>},
        k \in 0 .. (HEAP_XACT_MASK \div 16),
        f \in {0, HEAP_KEYS_UPDATED, HEAP_HOT_UPDATED,
               HEAP_KEYS_UPDATED + HEAP_HOT_UPDATED + HEAP_ONLY_TUPLE}}

FreezePage(htup) ==
    [pd_all_visible |-> FALSE,
     lp |-> <<ItemId(LP_NORMAL, 1, 28), ItemId(LP_REDIRECT, 1, 0)>>,
     items |-> (1 :> htup)]

InitFreeze ==
    /\ heap \in {<<FreezePage(h)>> : h \in FreezeHeaders}
    /\ tids \in {<<<<0, o>>>> : o \in {1, 2}}
    /\ snap = [heap |-> heap]
    /\ pc = "fresh"
    /\ vm = InitVm
    /\ dirty = {}
    /\ vmDirty = FALSE
    /\ wal = <<>>
    /\ flushed = 0
    /\ diskHeap = heap
    /\ diskVm = InitVm
    /\ relpersistence = "p"
    /\ pins = {}
    /\ locks = {}
    /\ vmbuf = FALSE
    /\ CritSectionCount = 0
    /\ call = [NoCall EXCEPT !.opt = HEAP_FORCE_FREEZE, !.ntids = 1]
    /\ result = "none"
    /\ loc = NoLoc
    /\ notices = <<>>
    /\ reads = {}
    /\ killed = {}
    /\ grp = NoGrp
    /\ trace = NoTrace
    /\ rd = NoReader
    /\ QueryCancelPending = FALSE

\* Lines 237-276 on the item the tid resolves to.
FreezeOnce ==
    /\ pc \in {"fresh", "once"}
    /\ heap' = [heap EXCEPT ![1] = FreezeItem(heap[1], 1, tids[1][1], tids[1][2])]
    /\ pc' = IF pc = "fresh" THEN "once" ELSE "twice"
    /\ UNCHANGED <<vm, dirty, vmDirty, wal, flushed, diskHeap, diskVm, relpersistence>>
    /\ UNCHANGED <<call, result, tids, loc, notices>>
    /\ UNCHANGED <<buffers, history>>
    /\ UNCHANGED others

NextFreeze == FreezeOnce
SpecFreeze == InitFreeze /\ [][NextFreeze]_vars

\* ------------------------------------------------------------ properties
Range(f) == {f[x] : x \in DOMAIN f}
Count(f, v) == Cardinality({x \in DOMAIN f : f[x] = v})

\* The item a chain of redirections from off ends at, 0 if it leaves the
\* line pointer array or does not end within fuel redirections.
RECURSIVE ResolveN(_, _, _)
ResolveN(page, off, fuel) ==
    IF off < 1 \/ off > Len(page.lp) THEN 0
    ELSE IF page.lp[off].lp_flags # LP_REDIRECT THEN off
    ELSE IF fuel = 0 THEN 0
    ELSE ResolveN(page, page.lp[off].lp_off, fuel - 1)

Resolve(page, off) == ResolveN(page, off, Len(page.lp))

\* The normal items of the page that the offsets offs name.
Targets(page, offs) ==
    {o \in {Resolve(page, offs[k]) : k \in DOMAIN offs} \ {0} :
        page.lp[o].lp_flags = LP_NORMAL}

\* The greatest of the offsets offs that name item o.
LastOffset(page, offs, o) ==
    LET S == {offs[k] : k \in {j \in DOMAIN offs : Resolve(page, offs[j]) = o}}
    IN CHOOSE m \in S : \A x \in S : x <= m

\* The page with all that the option asks for done to the items offs name,
\* and nothing else.
ExpectedPage(page, blk, opt, offs) ==
    LET T == Targets(page, offs)
    IN IF opt = HEAP_FORCE_KILL
       THEN [page EXCEPT
                !.lp = [o \in DOMAIN page.lp |->
                           IF o \in T THEN ItemId(LP_DEAD, 0, 0) ELSE page.lp[o]],
                !.pd_all_visible = (page.pd_all_visible /\ T = {})]
       ELSE [page EXCEPT
                !.items = [st \in DOMAIN page.items |->
                              IF \E o \in T : page.lp[o].lp_off = st
                              THEN LET o == CHOOSE x \in T : page.lp[x].lp_off = st
                                   IN FreezeTuple(page.items[st], blk,
                                                  LastOffset(page, offs, o))
                              ELSE page.items[st]]]

\* What the pages h make of a tid: the notice it is skipped with, "eligible"
\* if it names a normal item, "cycle" if its redirections do not end.
EntryKind(h, tid) ==
    IF tid[1] >= Len(h) THEN "block out of range"
    ELSE LET page == h[tid[1] + 1]
             r == Resolve(page, tid[2])
         IN IF tid[2] = 0 \/ tid[2] > Len(page.lp) THEN "item out of range"
            ELSE IF r = 0 THEN "cycle"
            ELSE IF page.lp[r].lp_flags = LP_UNUSED THEN "marked unused"
            ELSE IF page.lp[r].lp_flags = LP_DEAD THEN "marked dead"
            ELSE "eligible"

EligibleOnly(h, es) ==
    LET IsEligible(t) == EntryKind(h, t) = "eligible" IN SelectSeq(es, IsEligible)

OffsetsOn(es, blk) ==
    LET OnBlock(t) == t[1] = blk
        sel == SelectSeq(es, OnBlock)
    IN [k \in 1 .. Len(sel) |-> sel[k][2]]

ExpectedHeap(h, opt, es) ==
    [b \in 1 .. Len(h) |-> ExpectedPage(h[b], b - 1, opt, OffsetsOn(es, b - 1))]

AllVisibleBit(map, blk) == BitAnd(map[blk], VISIBILITYMAP_ALL_VISIBLE) # 0

\* The offsets of the rows a sequential scan of the page looks at: the normal
\* items.
ScanRows(page) == {o \in 1 .. Len(page.lp) : ItemIdIsNormal(page.lp[o])}

\* C1: under SpecCrash, for a logged relation, when the server has crashed
\* while a page group held the cleanup lock and redo has run, the page holds
\* either the image it had when the group took the lock or that image with
\* every kill or freeze of the group done; never some of them only.
CrashAtomicity ==
    (pc = "recovered" /\ grp.blk # InvalidBlockNumber /\ RelationNeedsWAL /\ grp.clean)
        => heap[grp.blk + 1] \in
              {grp.pre, ExpectedPage(grp.pre, grp.blk, grp.opt, grp.offs)}

\* Redo has brought back a page on which the interrupted group changed two
\* items.
CrashAtomicityWitness ==
    /\ pc = "recovered"
    /\ grp.blk # InvalidBlockNumber
    /\ heap[grp.blk + 1] # grp.pre
    /\ Cardinality(Targets(grp.pre, grp.offs)) >= 2

\* C2: a heap_force_kill whose tids were all set dead by earlier
\* heap_force_kill calls returns normally with one "already marked dead"
\* notice per tid, and leaves the pages, the visibility map, the dirty marks
\* and the log as it found them.
KillIdempotent ==
    (/\ pc = "done"
     /\ call.opt = HEAP_FORCE_KILL
     /\ call.relid = "htab"
     /\ \A k \in DOMAIN tids : tids[k] \in snap.killed)
        => /\ result = "ok"
           /\ notices = [k \in DOMAIN tids |->
                            Notice("marked dead", tids[k][1], tids[k][2])]
           /\ heap = snap.heap
           /\ vm = snap.vm
           /\ dirty = snap.dirty
           /\ vmDirty = snap.vmDirty
           /\ wal = snap.wal

\* A second heap_force_kill of a tid on the all-visible page has returned.
KillIdempotentWitness ==
    /\ pc = "done"
    /\ call.opt = HEAP_FORCE_KILL
    /\ call.relid = "htab"
    /\ \A k \in DOMAIN tids : tids[k] \in snap.killed /\ tids[k][1] = 0

\* The step of ProcessItem that kills the normal item a tid resolves to.
KillStep ==
    /\ pc = "redirect"
    /\ pc' = "loop"
    /\ call.opt = HEAP_FORCE_KILL
    /\ ItemIdIsNormal(PageGetItemId(BufferGetPage(loc.blkno), loc.itemid))

\* C3: heap_force_kill of a tid that resolves to a normal item sets that item
\* dead, so that a scan of the page no longer looks at it; and no step of
\* heap_force_kill or heap_force_freeze changes an item that is dead or unused.
KilledStaysDead ==
    [][/\ KillStep =>
            /\ ItemIdIsDead(PageGetItemId(heap'[loc.blkno + 1], loc.itemid))
            /\ loc.itemid \notin ScanRows(heap'[loc.blkno + 1])
       /\ \A b \in 1 .. Len(heap) : \A o \in 1 .. Len(heap[b].lp) :
            heap[b].lp[o].lp_flags \in {LP_DEAD, LP_UNUSED}
                => /\ Len(heap') >= b
                   /\ Len(heap'[b].lp) >= o
                   /\ heap'[b].lp[o] = heap[b].lp[o]]_vars

\* A heap_force_freeze of a tid that an earlier heap_force_kill set dead has
\* returned, and the item is dead.
KilledStaysDeadWitness ==
    /\ pc = "done"
    /\ call.opt = HEAP_FORCE_FREEZE
    /\ call.relid = "htab"
    /\ \E k \in DOMAIN tids :
          /\ tids[k] \in killed
          /\ ItemIdIsDead(heap[tids[k][1] + 1].lp[Resolve(snap.heap[tids[k][1] + 1],
                                                          tids[k][2])])

\* The header of the row of SpecFreeze.
FrozenRow == heap[1].items[1]

\* C4: under SpecFreeze, whatever the header of a normal row was, after
\* heap_force_freeze xmin is FrozenTransactionId, xmax is InvalidTransactionId,
\* the bits of HEAP_XACT_MASK in t_infomask are exactly HEAP_XMIN_FROZEN and
\* HEAP_XMAX_INVALID, and HEAP_HOT_UPDATED and HEAP_KEYS_UPDATED are clear.
FreezeResult ==
    pc \in {"once", "twice"}
        => /\ FrozenRow.t_xmin = FrozenTransactionId
           /\ FrozenRow.t_xmax = InvalidTransactionId
           /\ BitAnd(FrozenRow.t_infomask, HEAP_XACT_MASK)
                 = HEAP_XMIN_FROZEN + HEAP_XMAX_INVALID
           /\ BitAnd(FrozenRow.t_infomask2, HEAP_HOT_UPDATED) = 0
           /\ BitAnd(FrozenRow.t_infomask2, HEAP_KEYS_UPDATED) = 0

\* A row whose header said xmax committed, moved off, hot updated and keys
\* updated has been frozen.
FreezeResultWitness ==
    /\ pc = "once"
    /\ BitAnd(snap.heap[1].items[1].t_infomask, HEAP_XMAX_COMMITTED) # 0
    /\ BitAnd(snap.heap[1].items[1].t_infomask, HEAP_MOVED_OFF) # 0
    /\ snap.heap[1].items[1].t_infomask2 = HEAP_KEYS_UPDATED + HEAP_HOT_UPDATED
                                            + HEAP_ONLY_TUPLE + 1

\* C5: under SpecFreeze, whatever the header of a normal row was (moved off
\* or moved in, t_ctid pointing elsewhere), a second heap_force_freeze of the
\* same tid leaves the whole row as the first left it: xmin, xmax, xvac,
\* t_ctid, t_infomask and t_infomask2.
FreezeStable ==
    [][(pc = "once" /\ pc' = "twice") => heap' = heap]_vars

\* A row that was moved in, with a t_ctid that did not name it, has been
\* frozen twice, through the redirection.
FreezeStableWitness ==
    /\ pc = "twice"
    /\ tids[1][2] = 2
    /\ BitAnd(snap.heap[1].items[1].t_infomask, HEAP_MOVED) = HEAP_MOVED_IN
    /\ snap.heap[1].items[1].t_ctid # <<0, 2>>
    /\ FrozenRow.t_field3 = FrozenTransactionId
    /\ FrozenRow.t_ctid = <<0, 2>>

\* The step that releases the page of a heap_force_kill group.
KillRelease == pc = "unlock" /\ pc' = "relvm" /\ call.opt = HEAP_FORCE_KILL

\* Whether the group set dead an item that was normal when it took the lock.
KilledAny ==
    \E o \in 1 .. Len(grp.pre.lp) :
        /\ ItemIdIsNormal(grp.pre.lp[o])
        /\ ItemIdIsDead(heap[grp.blk + 1].lp[o])

\* C6: when heap_force_kill releases a page that was all-visible when it took
\* the lock: if it set at least one item dead, PD_ALL_VISIBLE and the page's
\* all-visible bit of the visibility map are both clear; if it set none dead,
\* PD_ALL_VISIBLE is still set and the map bits are what they were. And if the
\* flag and the map bit agreed when the lock was taken, they agree at the
\* release.
VisibilityCoupling ==
    [][KillRelease =>
          /\ (grp.pre.pd_all_visible /\ KilledAny)
                => /\ ~PageIsAllVisible(heap'[grp.blk + 1])
                   /\ ~AllVisibleBit(vm', grp.blk)
          /\ (grp.pre.pd_all_visible /\ ~KilledAny)
                => /\ PageIsAllVisible(heap'[grp.blk + 1])
                   /\ vm'[grp.blk] = snap.vm[grp.blk]
          /\ (grp.pre.pd_all_visible <=> AllVisibleBit(snap.vm, grp.blk))
                => (PageIsAllVisible(heap'[grp.blk + 1]) <=> AllVisibleBit(vm', grp.blk))
      ]_vars

\* heap_force_kill has released the all-visible page after setting an item
\* of it dead.
VisibilityCouplingWitness ==
    /\ pc = "relvm"
    /\ call.opt = HEAP_FORCE_KILL
    /\ loc.blkno = 0
    /\ loc.did_modify_vm
    /\ PageIsAllVisible(snap.heap[1])
    /\ ~PageIsAllVisible(heap[1])

\* The errors that end the call before the loop over the page groups.
FatalErrors ==
    {"RecoveryInProgress", "NullValueNotAllowed", "EmptyInput", "WrongObjectType",
     "NotOwner"}

\* C7: a call that ends with RecoveryInProgress, the error for a null tid,
\* the error for an empty array, the wrong-object-type error or NotOwner raises
\* it at its start, having read, pinned and locked no block, and leaves the
\* pages, the visibility map, the dirty marks, the log and the files as they
\* were.
FatalBeforeAnyPage ==
    [][(pc # "error" /\ pc' = "error" /\ result' \in FatalErrors)
          => /\ pc = "idle"
             /\ UNCHANGED storage
             /\ reads' = {}
             /\ pins' = {}
             /\ locks' = {}
             /\ ~vmbuf'
      ]_vars

\* A call on an index has failed after earlier calls changed the table.
FatalBeforeAnyPageWitness ==
    /\ pc = "error"
    /\ result = "WrongObjectType"
    /\ call.relid = "ptab_idx"
    /\ heap # InitHeap

EligibleKind(relid) ==
    relkind(relid) \in {RELKIND_RELATION, RELKIND_MATVIEW, RELKIND_TOASTVALUE}

\* C8 as stated: a caller who is neither the owner nor a superuser, calling
\* either function on a table, materialized view or TOAST table, always gets
\* NotOwner, before any block is read.
NotOwnerAlways ==
    (~call.owner /\ EligibleKind(call.relid))
        => (pc = "error" /\ result = "NotOwner" /\ reads = {})

\* C8, amended: such a caller always gets an error before any block is read,
\* and the error is NotOwner whenever the server is not in recovery and the
\* array is not empty and holds no null; otherwise it is the error of the
\* check that comes first.
NotOwnerUnlessEarlierError ==
    (~call.owner /\ EligibleKind(call.relid))
        => /\ pc = "error"
           /\ reads = {}
           /\ pins = {}
           /\ result = IF call.recovery THEN "RecoveryInProgress"
                       ELSE IF call.hasnull THEN "NullValueNotAllowed"
                       ELSE IF call.ntids = 0 THEN "EmptyInput"
                       ELSE "NotOwner"

\* A caller who does not own the materialized view got NotOwner.
NotOwnerWitness ==
    /\ pc = "error"
    /\ ~call.owner
    /\ call.relid = "mvw"
    /\ call.ntids > 0
    /\ result = "NotOwner"

\* C9: a call that returns has returned normally; every tid that the pages,
\* as the call found them, make skippable (block out of range, offset 0 or
\* past the last item, unused item, dead item) has its notice; and the pages
\* are what the eligible tids alone make of the pages the call found.
SkipsDoNotAbort ==
    (pc = "done" /\ call.relid = "htab")
        => /\ result = "ok"
           /\ \A k \in DOMAIN tids :
                 LET kind == EntryKind(snap.heap, tids[k])
                 IN CASE kind = "eligible" -> TRUE
                      [] kind = "block out of range" ->
                            Notice(kind, tids[k][1], 0) \in Range(notices)
                      [] OTHER ->
                            Count(notices, Notice(kind, tids[k][1], tids[k][2]))
                               = Count(tids, tids[k])
           /\ heap = ExpectedHeap(snap.heap, call.opt, EligibleOnly(snap.heap, tids))

\* A call with a skippable tid before an eligible one has returned and has
\* changed the page.
SkipsDoNotAbortWitness ==
    /\ pc = "done"
    /\ call.relid = "htab"
    /\ Len(tids) = 2
    /\ EntryKind(snap.heap, tids[1]) \in {"item out of range", "marked dead",
                                           "marked unused"}
    /\ EntryKind(snap.heap, tids[2]) = "eligible"
    /\ heap # snap.heap

\* The step that takes the next page group.
FetchStep == pc = "fetch" /\ loc'.curr_start_ptr # loc.curr_start_ptr

\* The group is skipped with its notice: nothing is read, pinned or locked.
GroupSkipped ==
    /\ pc' \in {"fetch", "close"}
    /\ notices' = Append(notices, Notice("block out of range", loc'.blkno, 0))
    /\ reads' = reads
    /\ pins' = pins
    /\ locks' = locks

\* C10 as stated: a group whose block number is at or past the number of
\* blocks the relation has when the group is taken is skipped with the
\* notice, and no block is read, pinned or locked; a group whose block number
\* is below that number is read, also when another session has extended the
\* relation since the call started.
RangeSkipCurrentCount ==
    [][FetchStep =>
          IF loc'.blkno >= RelationGetNumberOfBlocks(call.relid)
          THEN GroupSkipped
          ELSE pc' = "read"]_vars

\* C10, amended: the number of blocks is the one read at the start of the
\* call. A group at or past it, hence every group at or past the number of
\* blocks the relation has when the group is taken, is skipped with the
\* notice and reads, pins and locks no block; a group below it is read. A
\* block another session added after the call started is skipped.
RangeSkipStartCount ==
    [][FetchStep =>
          /\ IF loc'.blkno >= loc.nblocks THEN GroupSkipped ELSE pc' = "read"
          /\ loc'.blkno >= RelationGetNumberOfBlocks(call.relid) => GroupSkipped
          /\ loc.nblocks <= RelationGetNumberOfBlocks(call.relid)
      ]_vars

\* A group on a block that another session added after the call started has
\* been skipped.
RangeSkipWitness ==
    /\ pc \in {"fetch", "close"}
    /\ call.relid = "htab"
    /\ loc.noffs > 0
    /\ loc.blkno >= loc.nblocks
    /\ loc.blkno < Len(heap)
    /\ notices # <<>>
    /\ notices[Len(notices)] = Notice("block out of range", loc.blkno, 0)
    /\ loc.blkno \notin reads

\* C11: no step of a heap_force_freeze call changes PD_ALL_VISIBLE of a page
\* or a bit of the visibility map, pins the visibility map page, dirties it
\* or writes a record for it.
FreezeLeavesVisibility ==
    [][(call.opt = HEAP_FORCE_FREEZE /\ pc # "idle")
          => /\ vm' = vm
             /\ vmDirty' = vmDirty
             /\ ~vmbuf /\ ~vmbuf'
             /\ \A b \in 1 .. Len(heap) :
                   heap'[b].pd_all_visible = heap[b].pd_all_visible
             /\ \A k \in (Len(wal) + 1) .. Len(wal') : wal'[k].fork = "main"
      ]_vars

\* heap_force_freeze has returned after freezing a row of the all-visible
\* page; the flag and both bits of the map are set as before.
FreezeLeavesVisibilityWitness ==
    /\ pc = "done"
    /\ call.opt = HEAP_FORCE_FREEZE
    /\ call.relid = "htab"
    /\ heap[1] # snap.heap[1]
    /\ snap.heap[1].pd_all_visible
    /\ heap[1].pd_all_visible
    /\ vm[0] = snap.vm[0]
    /\ AllVisibleBit(vm, 0)
    /\ wal # <<>>

\* Whether the other session is looking at rows of the block: it holds the
\* content lock, or has released it and reads under its pin.
ReaderLooksAt(b) == rd.blk = b /\ rd.st \in {"locked", "scanned"}

\* What the other session looks at is a whole image of the page: the page as
\* the call found it, or with all that the call's tids ask for done.
ReaderSeesWhole ==
    (rd.st \in {"locked", "scanned"} /\ snap # NoSnap)
        => heap[rd.blk + 1] \in
              {snap.heap[rd.blk + 1],
               ExpectedPage(snap.heap[rd.blk + 1], rd.blk, call.opt,
                            OffsetsOn(tids, rd.blk))}

\* C12 as stated: while this backend holds the cleanup lock on a page, no
\* other session holds a pin or the content lock on it, and no session ever
\* looks at a page on which some of the group's changes are made and others
\* not.
NoOtherPinInWindow ==
    /\ \A b \in locks : ~OtherPins(b)
    /\ ReaderSeesWhole

\* While the cleanup lock is held, a session that has a pin on the page has
\* neither the content lock nor looked at the page.
OnlyUnusedPins == \A b \in locks : ~ReaderLooksAt(b)

\* C12, amended: the cleanup lock is granted when no other session has a pin
\* on the page; while it is held another session may pin the page, but none
\* holds the content lock on it or looks at it before the release; and no
\* session ever looks at a page on which some of the group's changes are made
\* and others not.
CleanupLockProtocol ==
    /\ [][(pc = "lock" /\ pc' = "pinvm") => ~OtherPins(loc.blkno)]_vars
    /\ [](OnlyUnusedPins /\ ReaderSeesWhole)

\* Another session has pinned the page while this backend, in its critical
\* section, has changed one of two rows; it waits for the content lock.
CleanupLockProtocolWitness ==
    /\ CritSectionCount > 0
    /\ loc.blkno \in locks
    /\ rd = [st |-> "pinned", blk |-> loc.blkno]
    /\ heap[loc.blkno + 1] # grp.pre
    /\ heap[loc.blkno + 1] #
          ExpectedPage(grp.pre, grp.blk, grp.opt, grp.offs)

\* The pages of the table that differ from what the call found.
ChangedBlocks == {b \in 0 .. (Len(snap.heap) - 1) : heap[b + 1] # snap.heap[b + 1]}

\* The page as it is now is in the log.
PageLogged(b) ==
    \E k \in 1 .. Len(wal) : wal[k] = [fork |-> "main", blkno |-> b, page |-> heap[b + 1]]

\* C13: the step at which a cancel request ends the call is taken with no
\* lock and no pin held, outside the critical section, and with every page
\* the call has changed so far logged; a request that arrives between
\* START_CRIT_SECTION and END_CRIT_SECTION, the check in the redirect loop
\* included, stays pending.
CancelOnlyBetweenGroups ==
    [][/\ (result' = "QueryCanceled" /\ result # "QueryCanceled")
            => /\ pc = "read"
               /\ locks = {} /\ pins = {} /\ ~vmbuf
               /\ CritSectionCount = 0
               /\ \A b \in ChangedBlocks : PageLogged(b) /\ b \in dirty
               /\ heap' = heap /\ vm' = vm /\ wal' = wal
       /\ (CritSectionCount > 0 /\ QueryCancelPending /\ pc' # "idle")
            => QueryCancelPending' /\ result' = result
      ]_vars

\* The call was cancelled before its second page, after it changed the first.
CancelOnlyBetweenGroupsWitness ==
    /\ pc = "error"
    /\ result = "QueryCanceled"
    /\ ChangedBlocks # {}
    /\ loc.blkno \notin ChangedBlocks
    /\ loc.blkno \notin reads

\* The positions of the call between two page groups, before the first and
\* after the last.
BetweenGroups == pc \in {"idle", "fetch", "read", "close", "done", "error"}

\* C14: the call holds the cleanup lock and a pin on at most one heap page,
\* the page of the current group, and at most one pin on a visibility map
\* page, taken under the cleanup lock; between two groups and on return it
\* holds no lock and no pin, also when the group changed nothing.
OnePageAtATime ==
    /\ Cardinality(locks) <= 1
    /\ Cardinality(pins) <= 1
    /\ locks \subseteq pins
    /\ pins \subseteq {loc.blkno}
    /\ vmbuf => pc \in {"loop", "redirect", "dirty", "logheap", "logvm", "unlock", "relvm"}
    /\ pc \in {"loop", "redirect", "dirty", "logheap", "logvm", "unlock"}
          => locks = {loc.blkno}
    /\ BetweenGroups => locks = {} /\ pins = {} /\ ~vmbuf /\ CritSectionCount = 0

\* A kill group on the all-visible page 0 whose targets were all skipped has
\* been released: the map page was pinned for it and nothing was changed.
OnePageAtATimeWitness ==
    /\ pc \in {"fetch", "close"}
    /\ call.opt = HEAP_FORCE_KILL
    /\ loc.blkno = 0
    /\ 0 \in reads
    /\ PageIsAllVisible(heap[1])
    /\ heap = snap.heap
    /\ ~loc.did_modify_page
    /\ trace.events = <<"unlock">>
    /\ ~vmbuf

\* What a changed group does, in order, when it writes a map record under
\* the given condition. (A freeze that finds the row as it would leave it
\* counts as a change for the code and changes nothing on the page.)
CommitEvents(vmRecord, mutated) ==
    LET logged == relpersistence = "p" IN
    (IF mutated THEN <<"mutate">> ELSE <<>>)
    \o <<"dirty">>
    \o (IF logged THEN <<"logheap">> ELSE <<>>)
    \o (IF vmRecord /\ logged THEN <<"logvm">> ELSE <<>>)
    \o <<"unlock">>

\* The records the group has appended are the images of the pages as the
\* group leaves them, and the log ends with them; the first group of a call
\* has appended them to the log as the call found it.
CommitRecords(vmRecord) ==
    LET logged == relpersistence = "p"
        recs == (IF logged
                 THEN <<[fork |-> "main", blkno |-> loc.blkno,
                         page |-> heap[loc.blkno + 1]]>>
                 ELSE <<>>)
                \o (IF vmRecord /\ logged
                    THEN <<[fork |-> "vm", blkno |-> 0, page |-> vm]>> ELSE <<>>)
    IN /\ Len(wal) >= Len(recs)
       /\ SubSeq(wal, Len(wal) - Len(recs) + 1, Len(wal)) = recs
       /\ Len(trace.groups) = 1 => wal = snap.wal \o recs

\* A group has been released after a change.
ChangedGroupReleased == pc = "relvm" /\ loc.did_modify_page

MapBitCleared ==
    AllVisibleBit(snap.vm, loc.blkno) /\ ~AllVisibleBit(vm, loc.blkno)

PageFlagCleared ==
    snap.heap[loc.blkno + 1].pd_all_visible /\ ~heap[loc.blkno + 1].pd_all_visible

EntriesOnBlock(batch, blk) == Cardinality({k \in DOMAIN batch : batch[k][1] = blk})
EntriesAt(batch, tid) == Cardinality({k \in DOMAIN batch : batch[k] = tid})

\* C16: whatever the order of the batch and whatever entries it repeats, the
\* groups taken so far have strictly increasing block numbers; each has as
\* many offsets as the batch has entries on its block, every offset as often
\* as the batch names it, in ascending order; and when the loop ends the
\* blocks of the groups are the blocks of the batch.
PageGrouping ==
    pc \in {"group", "grouped"}
        => LET g == trace.groups
               batch == snap.batch
           IN /\ \A i \in 1 .. (Len(g) - 1) : g[i].blkno < g[i + 1].blkno
              /\ \A i \in 1 .. Len(g) :
                    /\ \A k \in 1 .. (Len(g[i].offs) - 1) :
                          g[i].offs[k] <= g[i].offs[k + 1]
                    /\ Len(g[i].offs) = EntriesOnBlock(batch, g[i].blkno)
                    /\ \A o \in Range(g[i].offs) :
                          Count(g[i].offs, o) = EntriesAt(batch, <<g[i].blkno, o>>)
              /\ pc = "grouped"
                    => {g[i].blkno : i \in 1 .. Len(g)}
                          = {batch[k][1] : k \in DOMAIN batch}

\* A batch given out of order, with one tid twice, has been taken as two
\* groups.
PageGroupingWitness ==
    /\ pc = "grouped"
    /\ Len(snap.batch) = MaxBatch
    /\ snap.batch[1][1] > snap.batch[2][1]
    /\ snap.batch[1] = snap.batch[MaxBatch]
    /\ snap.batch # tids
    /\ Len(trace.groups) = 2
    /\ Len(trace.groups[2].offs) = 2

\* C17: the loop that follows redirections from a targeted in-range offset
\* has reached an item that is not a redirection after at most as many
\* steps as the page has line pointers, also on a page whose redirections
\* form a cycle.
RedirectBounded ==
    pc = "redirect"
        => trace.hops <= PageGetMaxOffsetNumber(BufferGetPage(loc.blkno))

\* C18: once heap_force_freeze has returned, every row it froze holds in
\* t_ctid the block and the offset of the line pointer that holds the row,
\* also when the tid named a redirection to that line pointer.
FrozenCtidIsOwnSlot ==
    (pc = "done" /\ call.opt = HEAP_FORCE_FREEZE /\ call.relid = "htab")
        => \A b \in 0 .. (Len(heap) - 1) :
              \A o \in Targets(snap.heap[b + 1], OffsetsOn(tids, b)) :
                 PageGetItem(heap[b + 1], PageGetItemId(heap[b + 1], o)).t_ctid
                    = <<b, o>>

\* The lengths of the runs of equal block number of a sorted batch.
RECURSIVE RunsOf(_)
RunsOf(es) ==
    IF es = <<>> THEN <<>>
    ELSE LET n == EntriesOnBlock(es, es[1][1])
         IN <<n>> \o RunsOf(SubSeq(es, n + 1, Len(es)))

\* FetchRuns on the runs of a batch moves the cursor as
\* tids_same_page_fetch_offnums does on the batch.
FetchRunsAgrees ==
    pc = "group"
        => FetchRuns(RunsOf(tids), call.ntids, loc.next_start_ptr).next_start_ptr
              = tids_same_page_fetch_offnums(tids, call.ntids, loc.next_start_ptr,
                                             loc.offnos).next_start_ptr

\* C19: for a batch of any length n >= 1, pass k of the loop takes the whole
\* of run k of the batch, the entries from the end of run k - 1 on, so that
\* no entry is taken twice or left out, and after the pass for the last run
\* the loop has ended with the cursor at n; also when n or the length of a
\* run is past what the 16 bits of the cursors hold.
CursorConsumesBatch ==
    pc \in {"pass", "consumed"}
        => LET g == trace.groups
               runs == snap.runs
           IN /\ Len(g) <= Len(runs)
              /\ \A k \in 1 .. Len(g) :
                    /\ g[k].blkno = k - 1
                    /\ g[k].start = SumSeq(SubSeq(runs, 1, k - 1))
                    /\ g[k].noffs = runs[k]
              /\ Len(g) = Len(runs) <=> pc = "consumed"
              /\ pc = "consumed" => loc.next_start_ptr = call.ntids

\* The line pointers and the rows of the page that are not among the items
\* T are as on the page pre, and the content of every row is.
OnlyItemsChanged(pre, page, T) ==
    /\ Len(page.lp) = Len(pre.lp)
    /\ DOMAIN page.items = DOMAIN pre.items
    /\ \A o \in 1 .. Len(pre.lp) : o \notin T => page.lp[o] = pre.lp[o]
    /\ \A st \in DOMAIN pre.items :
          /\ page.items[st].data = pre.items[st].data
          /\ (\A o \in T : pre.lp[o].lp_off # st) => page.items[st] = pre.items[st]

\* The records written for the block since the call started.
RecordsFor(b) ==
    {k \in (Len(snap.wal) + 1) .. Len(wal) : wal[k].fork = "main" /\ wal[k].blkno = b}

\* C20: at every point of a call, a line pointer or a row header differs
\* from what the call found only if a tid of the batch, followed through its
\* redirections, names it and it was a normal item; the redirections that
\* were followed, the other items, the content of every row and the pages no
\* tid names are as they were; a page whose tids were all skipped is as it
\* was, is not newly dirty and has no record.
FrameOfCall ==
    (snap # NoSnap /\ pc # "idle")
        => /\ Len(heap) = Len(snap.heap)
           /\ call.relid # "htab" => heap = snap.heap /\ wal = snap.wal /\ dirty = snap.dirty
           /\ call.relid = "htab" =>
                 \A b \in 0 .. (Len(heap) - 1) :
                    LET pre == snap.heap[b + 1]
                        T == Targets(pre, OffsetsOn(tids, b))
                    IN /\ OnlyItemsChanged(pre, heap[b + 1], T)
                       /\ T = {} => /\ heap[b + 1] = pre
                                    /\ b \in dirty <=> b \in snap.dirty
                                    /\ RecordsFor(b) = {}

\* A call has returned that changed the row a redirection of page 0 leads
\* to and skipped its only tid on page 1: the redirection is as it was, and
\* page 1 was read, is not dirty and has no record.
FrameOfCallWitness ==
    /\ pc = "done"
    /\ tids = <<<<0, 2>>, <<1, 1>>>>
    /\ heap[1] # snap.heap[1]
    /\ heap[1].lp[2] = snap.heap[1].lp[2]
    /\ ItemIdIsRedirected(heap[1].lp[2])
    /\ heap[2] = snap.heap[2]
    /\ 1 \in reads
    /\ 1 \notin dirty
    /\ RecordsFor(0) # {}
    /\ RecordsFor(1) = {}

====
